---- MODULE Spec2Model ----
(***************************************************************************)
(* Classroom/lab state tracker (models/classroom.ts) and the live-update   *)
(* scheduler attached to it (utils/autoUpdateMessage.ts).                   *)
(*                                                                         *)
(* Spec      : the Classroom aggregate driven through its public methods   *)
(*             with arbitrary arguments of the declared types.             *)
(* SpecSched : one live-update session (createAutoUpdateMessage) observing *)
(*             the classroom while the button handlers change it and the   *)
(*             clock advances in steps of 2 s; times are in seconds.       *)
(***************************************************************************)
EXTENDS Integers, Sequences, FiniteSets, Bags, TLC

(* ------------------------------ bounds --------------------------------- *)
\* largest group count handed to the constructor
MaxGroups == 2
\* Date.now(), in seconds, read by startLab lies in 0 .. MaxTime
MaxTime == 1
\* number of method calls made on the aggregate in one behaviour
MaxCalls == 5

\* SpecSched: the clock runs from 0 to MaxClock
MaxClock == 18
\* SpecSched: number of button presses and commands handled in one behaviour
MaxPresses == 2
\* SpecSched: performUpdate invocations of one session suspended at the same time
MaxInFlight == 2
\* SpecPair: number of complete_lab button presses in one behaviour
MaxPairPresses == 1
MaxButtonPresses == 4

\* const MIN_UPDATE_INTERVAL = 10 * 1000 (ms): 10 s
MIN_UPDATE_INTERVAL == 10
\* options.interval and options.timeLimit handed to createAutoUpdateMessage, in
\* seconds; as in every caller the interval exceeds MIN_UPDATE_INTERVAL and is
\* shorter than the time limit
Intervals == {12}
TimeLimits == {16}
\* SpecTicks: an interval that divides the time limit, as in the deadline
\* scenario (interval = timeBudget / 10), here timeLimit = 3 * interval
TickIntervals == {6}
TickTimeLimits == {18}
SessionIds == {1}
\* SpecPair: two sessions created on the same classroom
PairIds == {1, 2}

StudentIds == {"u1", "u2"}
Names == {"ann"}
LabNames == {"L1"}
ThreadId == "thread1"

\* constructor arguments: integers <= 0 as well as valid counts
CtorGroups == (0 - 1) .. MaxGroups
\* group numbers handed to assignStudentToGroup or carried by a Student record:
\* below, inside and above 1..groups
GroupInputs == 0 .. (MaxGroups + 1)

(* --------------------------- data model -------------------------------- *)
\* LabSession | null : the null value of activeLabSession
NullLab == [id |-> "null", name |-> "", startTime |-> 0 - 1, threadId |-> ""]

\* interface LabSession
LabSession(id, name, startTime, threadId) ==
  [id |-> id, name |-> name, startTime |-> startTime, threadId |-> threadId]

\* interface Student; the optional field group is the empty set when undefined
\* and {g} when set to g; completedLabs is the Set<string> of lab ids
Student(id, name, group, completedLabs) ==
  [id |-> id, name |-> name, group |-> group, completedLabs |-> completedLabs]

\* the Student record as handleJoinGroup builds it: no group, new Set()
NewStudent(id, name) == Student(id, name, {}, {})

\* lab ids a caller-built Student record may already carry in completedLabs;
\* ToString(0) is the id of a lab started at time 0
LabIdInputs == {ToString(0)}

\* every Student value a caller can hand to addStudent(student: Student): the
\* optional group absent or any number, completedLabs any set of lab ids
StudentInputs ==
  { Student(id, name, group, labs) :
      id \in StudentIds, name \in Names,
      group \in {{}} \cup {{g} : g \in GroupInputs},
      labs \in SUBSET LabIdInputs }

\* new Collection(): the empty student mapping
EmptyStudents == [k \in {} |-> Student("", "", {}, {})]

\* Collection.set(key, value)
CollectionSet(coll, key, value) ==
  [k \in DOMAIN coll \cup {key} |-> IF k = key THEN value ELSE coll[k]]

\* Math.max(1, groups) on integers
MathMax(a, b) == IF a >= b THEN a ELSE b

\* an emitted notification: type, the student id it carries ("" for none),
\* the lab id it carries ("" for none), the group number it carries ({} for none)
Event(type, sid, lab, group) ==
  [type |-> type, sid |-> sid, lab |-> lab, group |-> group]

\* result of one method call: the classroom after it, the value returned
\* (TRUE for void / object returns), whether it threw, and the notifications
\* emitted, in order
Outcome(c, value, threw, events) ==
  [c |-> c, value |-> value, threw |-> threw, events |-> events]

NewClassroomNoFloor(id, name, groups) ==
  [id |-> id, name |-> name, students |-> EmptyStudents,
   groups |-> groups, activeLabSession |-> NullLab]

\* new Classroom(id, name, groups)
NewClassroom(id, name, groups) ==
  [id |-> id, name |-> name, students |-> EmptyStudents,
   groups |-> MathMax(1, groups), activeLabSession |-> NullLab]

addStudentEmitsBeforeSet(c, student) ==
  Outcome(c, TRUE, FALSE, << Event("student-added", student.id, "", {}) >>)

\* Classroom.addStudent(student)
addStudent(c, student) ==
  Outcome([c EXCEPT !.students = CollectionSet(c.students, student.id, student)],
          TRUE, FALSE,
          << Event("student-added", student.id, "", {}) >>)

\* Classroom.getStudent(id): defined exactly for the registered ids
hasStudent(c, id) == id \in DOMAIN c.students

assignStudentToGroupNoRangeCheck(c, studentId, group) ==
  IF ~hasStudent(c, studentId)
  THEN Outcome(c, FALSE, FALSE, << >>)
  ELSE Outcome([c EXCEPT !.students[studentId].group = {group}], TRUE, FALSE,
               << Event("student-group-changed", studentId, "", {group}) >>)

\* Classroom.assignStudentToGroup(studentId, group)
assignStudentToGroup(c, studentId, group) ==
  IF ~hasStudent(c, studentId) \/ group < 1 \/ group > c.groups
  THEN Outcome(c, FALSE, FALSE, << >>)
  ELSE Outcome([c EXCEPT !.students[studentId].group = {group}], TRUE, FALSE,
               << Event("student-group-changed", studentId, "", {group}) >>)

startLabNoGuard(c, labName, t) ==
  LET session == LabSession(ToString(t), labName, t, c.id)
  IN Outcome([c EXCEPT !.activeLabSession = session], TRUE, FALSE,
             << Event("lab-started", "", session.id, {}) >>)

\* Classroom.startLab(labName) called when Date.now() = t
startLab(c, labName, t) ==
  IF c.activeLabSession # NullLab
  THEN Outcome(c, FALSE, TRUE, << >>)
  ELSE LET session == LabSession(ToString(t), labName, t, c.id)
       IN Outcome([c EXCEPT !.activeLabSession = session], TRUE, FALSE,
                  << Event("lab-started", "", session.id, {}) >>)

completeLabNoActiveCheck(c, studentId) ==
  IF ~hasStudent(c, studentId) THEN Outcome(c, FALSE, FALSE, << >>)
  ELSE LET lab == c.activeLabSession.id
           isNewCompletion == lab \notin c.students[studentId].completedLabs
       IN Outcome([c EXCEPT !.students[studentId].completedLabs = @ \cup {lab}],
                  TRUE, FALSE,
                  IF isNewCompletion
                  THEN << Event("lab-completed", studentId, lab, {}) >>
                  ELSE << >>)

completeLabAlwaysEmits(c, studentId) ==
  IF c.activeLabSession = NullLab THEN Outcome(c, FALSE, FALSE, << >>)
  ELSE IF ~hasStudent(c, studentId) THEN Outcome(c, FALSE, FALSE, << >>)
  ELSE LET lab == c.activeLabSession.id
       IN Outcome([c EXCEPT !.students[studentId].completedLabs = @ \cup {lab}],
                  TRUE, FALSE,
                  << Event("lab-completed", studentId, lab, {}) >>)

completeLabEndsSession(c, studentId) ==
  IF c.activeLabSession = NullLab THEN Outcome(c, FALSE, FALSE, << >>)
  ELSE IF ~hasStudent(c, studentId) THEN Outcome(c, FALSE, FALSE, << >>)
  ELSE LET lab == c.activeLabSession.id
           isNewCompletion == lab \notin c.students[studentId].completedLabs
       IN Outcome([c EXCEPT !.students[studentId].completedLabs = @ \cup {lab},
                            !.activeLabSession = NullLab],
                  TRUE, FALSE,
                  IF isNewCompletion
                  THEN << Event("lab-completed", studentId, lab, {}) >>
                  ELSE << >>)

\* Classroom.completeLab(studentId)
completeLab(c, studentId) ==
  IF c.activeLabSession = NullLab THEN Outcome(c, FALSE, FALSE, << >>)
  ELSE IF ~hasStudent(c, studentId) THEN Outcome(c, FALSE, FALSE, << >>)
  ELSE LET lab == c.activeLabSession.id
           isNewCompletion == lab \notin c.students[studentId].completedLabs
       IN Outcome([c EXCEPT !.students[studentId].completedLabs = @ \cup {lab}],
                  TRUE, FALSE,
                  IF isNewCompletion
                  THEN << Event("lab-completed", studentId, lab, {}) >>
                  ELSE << >>)

\* Classroom.hasCompletedActiveLab(studentId)
hasCompletedActiveLab(c, studentId) ==
  IF c.activeLabSession = NullLab THEN FALSE
  ELSE IF ~hasStudent(c, studentId) THEN FALSE
  ELSE c.activeLabSession.id \in c.students[studentId].completedLabs

(* ---------------------- completion statistics -------------------------- *)
\* Math.round((completed / total) * 100) || 0 : round half up, NaN gives 0
Percentage(completed, total) ==
  IF total = 0 THEN 0 ELSE (200 * completed + total) \div (2 * total)

\* Array.from(classroom.students.values())
StudentValues(c) == { c.students[id] : id \in DOMAIN c.students }

\* .filter(student => student.completedLabs.has(activeLabSession.id))
CompletedOf(c, students) ==
  { st \in students : c.activeLabSession.id \in st.completedLabs }

\* a "<completed>/<total> students (<percent>%)" line; group is 0 for the
\* overall line
StatLine(group, completed, total) ==
  [group |-> group, text |-> "counts", completed |-> completed, total |-> total,
   percent |-> Percentage(completed, total)]

\* a "No students in classroom" / "No students in group" line
EmptyLine(group) ==
  [group |-> group, text |-> "no students", completed |-> 0, total |-> 0,
   percent |-> 0]

\* the embed of a classroom without active lab session
NoLabEmbed ==
  [active |-> FALSE, overall |-> << >>, groups |-> << >>, completedList |-> EmptyBag]

createStatusEmbedAnyLab(c) ==
  IF c.activeLabSession = NullLab THEN NoLabEmbed
  ELSE LET all == StudentValues(c)
           done(students) == { st \in students : st.completedLabs # {} }
       IN [active |-> TRUE,
           overall |-> << StatLine(0, Cardinality(done(all)), Cardinality(all)) >>,
           groups |-> IF c.groups > 1
                      THEN [i \in 1 .. c.groups |->
                              LET groupStudents == { st \in all : st.group = {i} }
                              IN StatLine(i, Cardinality(done(groupStudents)),
                                          Cardinality(groupStudents))]
                      ELSE << >>,
           completedList |-> EmptyBag]

\* createStatusEmbed(classroom) of start-lab: the counts its description shows
createStatusEmbed(c) ==
  IF c.activeLabSession = NullLab THEN NoLabEmbed
  ELSE LET all == StudentValues(c)
       IN [active |-> TRUE,
           overall |-> << StatLine(0, Cardinality(CompletedOf(c, all)),
                                   Cardinality(all)) >>,
           groups |-> IF c.groups > 1
                      THEN [i \in 1 .. c.groups |->
                              LET groupStudents == { st \in all : st.group = {i} }
                              IN StatLine(i, Cardinality(CompletedOf(c, groupStudents)),
                                          Cardinality(groupStudents))]
                      ELSE << >>,
           completedList |-> EmptyBag]

\* createLabStatusEmbed(classroom) of lab-stats: as createStatusEmbed, with a
\* "no students" line for an empty classroom or group and the list of the
\* students who completed (name and, when truthy, group), order left out
createLabStatusEmbed(c) ==
  IF c.activeLabSession = NullLab THEN NoLabEmbed
  ELSE LET all == StudentValues(c)
           completedStudents == CompletedOf(c, all)
       IN [active |-> TRUE,
           overall |-> << IF Cardinality(all) = 0 THEN EmptyLine(0)
                          ELSE StatLine(0, Cardinality(completedStudents),
                                        Cardinality(all)) >>,
           groups |-> IF c.groups > 1
                      THEN [i \in 1 .. c.groups |->
                              LET groupStudents == { st \in all : st.group = {i} }
                              IN IF Cardinality(groupStudents) = 0 THEN EmptyLine(i)
                                 ELSE StatLine(i,
                                        Cardinality(CompletedOf(c, groupStudents)),
                                        Cardinality(groupStudents))]
                      ELSE << >>,
           completedList |->
             BagOfAll(LAMBDA st : << st.name,
                                     IF st.group \in {{}, {0}} THEN {} ELSE st.group >>,
                      SetToBag(completedStudents))]

(* ------------------------ live-update session -------------------------- *)
\* history entry of a session that has received no lab-completed notification
NoNotif == [at |-> 0 - 1, elapsed |-> 0, pending |-> FALSE, outcome |-> "none"]

\* the closure state of one createAutoUpdateMessage call. pc: "idle" (not
\* called), "initial" (awaiting the initial render and reply), "set" (timers and
\* listeners registered), "rejected" (the initial render or reply failed).
\* timers: bag of the setTimeout(() => performUpdate(reason), delay) timers of
\* queueUpdate; inflight: bag of the performUpdate invocations suspended at an
\* await. lastNotif, doneSince and lastDoneAt are history of the session: the
\* last lab-completed notification its listener received, whether a refresh has
\* completed since, and the time the last post (initial reply or refresh)
\* completed. ended is the set of termination paths the session has taken:
\* "deadline" (a refresh of the now >= endTime branch was posted), "safety" (the
\* setTimeout(..., timeLimit) callback ran), "error" (the catch block ran).
\* latePosts counts the editReply calls that completed after a teardown.
IdleSession ==
  [pc |-> "idle", interval |-> 0, timeLimit |-> 0,
   startTime |-> 0, endTime |-> 0, updateCount |-> 0, lastUpdateTime |-> 0,
   pendingUpdate |-> FALSE,
   intervalOn |-> FALSE, intervalDue |-> 0,
   safetyOn |-> FALSE, safetyDue |-> 0,
   listening |-> FALSE,
   timers |-> EmptyBag, inflight |-> EmptyBag,
   shown |-> "none",
   lastNotif |-> NoNotif,
   doneSince |-> FALSE,
   lastDoneAt |-> 0,
   ended |-> {},
   latePosts |-> 0]

\* a performUpdate invocation suspended at `await generateEmbed()` (pc "render")
\* or at `await interaction.editReply()` (pc "post"); at is its `now`, final
\* whether it took the `now >= endTime` branch
Update(reason, at, final, pc) ==
  [reason |-> reason, at |-> at, final |-> final, pc |-> pc]

\* a timer set by queueUpdate: due time, reason, and the time it was set
Timer(due, reason, queuedAt) ==
  [due |-> due, reason |-> reason, queuedAt |-> queuedAt]

\* performUpdate(reason) entered when Date.now() = t, up to its first await
performUpdate(s, t, reason) ==
  [s EXCEPT !.updateCount = @ + 1,
            !.inflight = @ (+) SetToBag({Update(reason, t, t >= s.endTime, "render")})]

queueUpdateFromNotification(s, t, reason) ==
  LET timeSinceLastUpdate == t - s.lastUpdateTime
  IN IF timeSinceLastUpdate < MIN_UPDATE_INTERVAL
     THEN IF ~s.pendingUpdate
          THEN [s EXCEPT !.pendingUpdate = TRUE,
                         !.timers = @ (+) SetToBag({Timer(t + MIN_UPDATE_INTERVAL,
                                                          reason, t)})]
          ELSE s
     ELSE performUpdate(s, t, reason)

queueUpdateNoPendingFlag(s, t, reason) ==
  LET timeSinceLastUpdate == t - s.lastUpdateTime
  IN IF timeSinceLastUpdate < MIN_UPDATE_INTERVAL
     THEN [s EXCEPT !.pendingUpdate = TRUE,
                    !.timers = @ (+) SetToBag({Timer(
                        t + (MIN_UPDATE_INTERVAL - timeSinceLastUpdate), reason, t)})]
     ELSE performUpdate(s, t, reason)

\* queueUpdate(reason) called when Date.now() = t
queueUpdate(s, t, reason) ==
  LET timeSinceLastUpdate == t - s.lastUpdateTime
  IN IF timeSinceLastUpdate < MIN_UPDATE_INTERVAL
     THEN IF ~s.pendingUpdate
          THEN [s EXCEPT !.pendingUpdate = TRUE,
                         !.timers = @ (+) SetToBag({Timer(
                             t + (MIN_UPDATE_INTERVAL - timeSinceLastUpdate), reason, t)})]
          ELSE s
     ELSE performUpdate(s, t, reason)

\* the notification kinds a session subscribes to, and the reason each
\* listener passes to queueUpdate
Observed == {"student-added", "student-group-changed", "lab-completed"}
ReasonOf(type) ==
  CASE type = "student-added" -> "student-joined"
    [] type = "student-group-changed" -> "group-changed"
    [] type = "lab-completed" -> "lab-completed"

\* what a queueUpdate call did: set a timer, started a refresh, or neither
OutcomeOf(s, s2) ==
  IF s2.timers # s.timers THEN "deferred"
  ELSE IF s2.inflight # s.inflight THEN "immediate"
  ELSE "dropped"

\* onStudentAdded / onStudentGroupChanged / onLabCompleted of a session, run
\* by classroom.emit at time t; a lab-completed notification is also entered in
\* the session's history with what the listener found and did
Listener(s, t, ev) ==
  IF ~s.listening \/ ev.type \notin Observed THEN s
  ELSE LET s2 == queueUpdate(s, t, ReasonOf(ev.type))
       IN IF ev.type # "lab-completed" THEN s2
          ELSE [s2 EXCEPT
                 !.lastNotif = [at |-> t,
                                elapsed |-> t - s.lastUpdateTime,
                                pending |-> s.pendingUpdate,
                                outcome |-> OutcomeOf(s, s2)],
                 !.doneSince = FALSE]

\* the events of one handler, emitted in order to the session's listeners
RECURSIVE Emit(_, _, _)
Emit(s, t, events) ==
  IF events = << >> THEN s
  ELSE Emit(Listener(s, t, Head(events)), t, Tail(events))

TeardownKeepsListeners(s, path) ==
  [s EXCEPT !.intervalOn = FALSE, !.ended = @ \cup {path}]

TeardownTwiceListensAgain(s, path) ==
  [s EXCEPT !.intervalOn = FALSE, !.listening = (s.ended # {}),
            !.ended = @ \cup {path}]

\* clearInterval(intervalId); if (classroom) removeEventListeners(), on
\* termination path `path`
Teardown(s, path) == [s EXCEPT !.intervalOn = FALSE, !.listening = FALSE, !.ended = @ \cup {path}]

\* lines 62-198 of createAutoUpdateMessage, run without suspension at time t
\* once the initial reply is out
Setup(s, t) ==
  [s EXCEPT !.pc = "set", !.shown = "initial",
            !.startTime = t, !.endTime = t + s.timeLimit,
            !.updateCount = 0, !.lastUpdateTime = t, !.pendingUpdate = FALSE,
            !.lastDoneAt = t,
            !.listening = TRUE,
            !.intervalOn = TRUE, !.intervalDue = t + s.interval,
            !.safetyOn = TRUE, !.safetyDue = t + s.timeLimit]

\* the session has no more than MaxInFlight suspended performUpdate invocations
WithinInFlight(s) == BagCardinality(s.inflight) <= MaxInFlight

\* some timer of the session is due at time t
TimerDue(s, t) ==
  \/ s.intervalOn /\ t >= s.intervalDue
  \/ s.safetyOn /\ t >= s.safetyDue
  \/ \E tm \in BagToSet(s.timers) : t >= tm.due

(* ------------------------------ state ---------------------------------- *)
VARIABLES
  classroom,   \* the Classroom instance
  groupsArg,   \* the groups argument its constructor was called with
  now,         \* Date.now(), in seconds, as last read
  call,        \* the last method call: name, arguments, Outcome fields
  nCalls,      \* number of method calls made so far
  notified,    \* bag of (student id, lab id) pairs of lab-completed notifications
  labsStarted, \* every LabSession that startLab has created
  completedOk, \* (student id, lab id) pairs for which completeLab returned
               \* true while that lab was the active one
  sess         \* the live-update sessions, by session id

vars == << classroom, groupsArg, now, call, nCalls, notified, labsStarted,
           completedOk, sess >>

\* record of a method call; sid / group are "" / {} when the method has none
Call(op, sid, group, out) ==
  [op |-> op, sid |-> sid, group |-> group, value |-> out.value,
   threw |-> out.threw, events |-> out.events]

NoCall == [op |-> "new", sid |-> "", group |-> {}, value |-> TRUE,
           threw |-> FALSE, events |-> << >>]

\* the lab-completed notifications among a call's events, as (sid, lab) pairs
LabCompletedPairs(events) ==
  { << events[i].sid, events[i].lab >> :
      i \in { j \in DOMAIN events : events[j].type = "lab-completed" } }

\* bookkeeping shared by every method call made at time t: the call, what it
\* emitted, and the listeners that emit runs
Record(op, sid, group, out, t) ==
  /\ classroom' = out.c
  /\ call' = Call(op, sid, group, out)
  /\ nCalls' = nCalls + 1
  /\ notified' = notified (+) SetToBag(LabCompletedPairs(out.events))
  /\ labsStarted' = IF op = "startLab" /\ ~out.threw
                    THEN labsStarted \cup {out.c.activeLabSession}
                    ELSE labsStarted
  /\ completedOk' = IF op = "completeLab" /\ out.value
                    THEN completedOk \cup {<< sid, classroom.activeLabSession.id >>}
                    ELSE completedOk
  /\ sess' = [i \in DOMAIN sess |-> Emit(sess[i], t, out.events)]

Init ==
  /\ groupsArg \in CtorGroups
  /\ classroom = NewClassroom(ThreadId, "class", groupsArg)
  /\ now = 0
  /\ call = NoCall
  /\ nCalls = 0
  /\ notified = EmptyBag
  /\ labsStarted = {}
  /\ completedOk = {}
  /\ sess = [i \in SessionIds |-> IdleSession]

AddStudent ==
  /\ nCalls < MaxCalls
  /\ \E student \in StudentInputs :
       Record("addStudent", student.id, student.group, addStudent(classroom, student), now)
  /\ UNCHANGED << groupsArg, now >>

AssignStudentToGroup ==
  /\ nCalls < MaxCalls
  /\ \E sid \in StudentIds, g \in GroupInputs :
       Record("assignStudentToGroup", sid, {g}, assignStudentToGroup(classroom, sid, g), now)
  /\ UNCHANGED << groupsArg, now >>

\* startLab is called at some time t, not before the previous reading of the clock
StartLab ==
  /\ nCalls < MaxCalls
  /\ \E labName \in LabNames, t \in now .. MaxTime :
       /\ Record("startLab", "", {}, startLab(classroom, labName, t), t)
       /\ now' = t
  /\ UNCHANGED groupsArg

CompleteLab ==
  /\ nCalls < MaxCalls
  /\ \E sid \in StudentIds :
       Record("completeLab", sid, {}, completeLab(classroom, sid), now)
  /\ UNCHANGED << groupsArg, now >>

Next == AddStudent \/ AssignStudentToGroup \/ StartLab \/ CompleteLab

Spec == Init /\ [][Next]_vars

(* ------------------- SpecSched: a session and its classroom ------------- *)
aggVars == << classroom, groupsArg, call, nCalls, notified, labsStarted, completedOk >>

\* bookkeeping of a button handler run at time `now`: c2 is the classroom it
\* leaves, events what its method calls emitted, in order
Handled(op, sid, group, c2, value, events, okPairs) ==
  /\ classroom' = c2
  /\ call' = [op |-> op, sid |-> sid, group |-> group, value |-> value,
              threw |-> FALSE, events |-> events]
  /\ nCalls' = nCalls + 1
  /\ notified' = notified (+) SetToBag(LabCompletedPairs(events))
  /\ completedOk' = completedOk \cup okPairs
  /\ sess' = [i \in DOMAIN sess |-> Emit(sess[i], now, events)]
  /\ \A i \in DOMAIN sess : WithinInFlight(sess'[i])
  /\ UNCHANGED << groupsArg, now, labsStarted >>

handleJoinGroupAlwaysCreates(u, name, groupNum) ==
  LET added == addStudent(classroom, NewStudent(u, name))
      assigned == assignStudentToGroup(added.c, u, groupNum)
  IN Handled("handleJoinGroup", u, {groupNum}, assigned.c, assigned.value,
             added.events \o assigned.events, {})

\* handleJoinGroup: button join_group:<groupNum>:<threadId> pressed by user u
\* whose username is name
handleJoinGroup(u, name, groupNum) ==
  LET added == IF hasStudent(classroom, u)
               THEN Outcome(classroom, TRUE, FALSE, << >>)
               ELSE addStudent(classroom, NewStudent(u, name))
      assigned == assignStudentToGroup(added.c, u, groupNum)
  IN Handled("handleJoinGroup", u, {groupNum}, assigned.c, assigned.value,
             added.events \o assigned.events, {})

\* a join button of the classroom is pressed
HandleJoinGroup ==
  /\ nCalls < MaxPresses
  /\ \E u \in StudentIds, name \in Names, groupNum \in 1 .. classroom.groups :
       handleJoinGroup(u, name, groupNum)

handleCompleteLabAnyLabId(u, labId) ==
  IF classroom.activeLabSession = NullLab
  THEN Handled("handleCompleteLab", u, {}, classroom, "inactive", << >>, {})
  ELSE IF ~hasStudent(classroom, u)
  THEN Handled("handleCompleteLab", u, {}, classroom, "unregistered", << >>, {})
  ELSE LET wasAlreadyCompleted == hasCompletedActiveLab(classroom, u)
           done == completeLab(classroom, u)
       IN Handled("handleCompleteLab", u, {}, done.c,
                  IF wasAlreadyCompleted THEN "already" ELSE "completed",
                  done.events,
                  IF done.value THEN {<< u, labId >>} ELSE {})

\* handleCompleteLab: button complete_lab:<labId>:<threadId> pressed by user u;
\* the value of the call is the reply: "inactive" (This lab session is no
\* longer active), "unregistered" (You are not registered), "already" (You have
\* already completed) or "completed" (You have completed)
handleCompleteLab(u, labId) ==
  IF classroom.activeLabSession = NullLab \/ classroom.activeLabSession.id # labId
  THEN Handled("handleCompleteLab", u, {}, classroom, "inactive", << >>, {})
  ELSE IF ~hasStudent(classroom, u)
  THEN Handled("handleCompleteLab", u, {}, classroom, "unregistered", << >>, {})
  ELSE LET wasAlreadyCompleted == hasCompletedActiveLab(classroom, u)
           done == completeLab(classroom, u)
       IN Handled("handleCompleteLab", u, {}, done.c,
                  IF wasAlreadyCompleted THEN "already" ELSE "completed",
                  done.events,
                  IF done.value THEN {<< u, labId >>} ELSE {})

\* the complete button of the active lab is pressed; the button exists once
\* start-lab has posted it and carries that lab's id
HandleCompleteLab ==
  /\ nCalls < MaxPresses
  /\ classroom.activeLabSession # NullLab
  /\ \E u \in StudentIds, labId \in {classroom.activeLabSession.id} :
       handleCompleteLab(u, labId)

StartLabNowUnchecked ==
  /\ nCalls < MaxPresses
  /\ \E labName \in LabNames :
       Record("startLab", "", {}, startLab(classroom, labName, now), now)
  /\ UNCHANGED << groupsArg, now >>

\* the start-lab command, from its check of classroom.activeLabSession to its
\* call of classroom.startLab(labName), run without suspension at the current
\* time; the value FALSE stands for the reply "There is already an active lab
\* session"
execute(labName) ==
  /\ IF classroom.activeLabSession # NullLab
     THEN Record("startLab", "", {}, Outcome(classroom, FALSE, FALSE, << >>), now)
     ELSE Record("startLab", "", {}, startLab(classroom, labName, now), now)
  /\ UNCHANGED << groupsArg, now >>

\* a start-lab command is run
StartLabNow ==
  /\ nCalls < MaxPresses
  /\ \E labName \in LabNames : execute(labName)

\* createAutoUpdateMessage({interval, timeLimit, classroom, ...}) is called:
\* it starts the initial render and suspends
CreateAutoUpdateMessage(i) ==
  /\ sess[i].pc = "idle"
  /\ \E interval \in Intervals, timeLimit \in TimeLimits :
       sess' = [sess EXCEPT ![i] = [@ EXCEPT !.pc = "initial",
                                              !.interval = interval,
                                              !.timeLimit = timeLimit]]
  /\ UNCHANGED << aggVars, now >>

\* createAutoUpdateMessage called with an interval below MIN_UPDATE_INTERVAL
CreateAutoUpdateMessageTicks(i) ==
  /\ sess[i].pc = "idle"
  /\ \E interval \in TickIntervals, timeLimit \in TickTimeLimits :
       sess' = [sess EXCEPT ![i] = [@ EXCEPT !.pc = "initial",
                                              !.interval = interval,
                                              !.timeLimit = timeLimit]]
  /\ UNCHANGED << aggVars, now >>

\* the initial render and reply succeed: state, listeners and timers are set up
InitialReplySent(i) ==
  /\ sess[i].pc = "initial"
  /\ sess' = [sess EXCEPT ![i] = Setup(@, now)]
  /\ UNCHANGED << aggVars, now >>

InitialReplyFailsRegistered(i) ==
  /\ sess[i].pc = "initial"
  /\ sess' = [sess EXCEPT ![i] = [Setup(@, now) EXCEPT !.pc = "rejected"]]
  /\ UNCHANGED << aggVars, now >>

\* the initial render or reply throws: createAutoUpdateMessage rejects
InitialReplyFails(i) ==
  /\ sess[i].pc = "initial"
  /\ sess' = [sess EXCEPT ![i] = [@ EXCEPT !.pc = "rejected"]]
  /\ UNCHANGED << aggVars, now >>

IntervalFiresGated(i) ==
  /\ sess[i].intervalOn /\ now >= sess[i].intervalDue
  /\ sess' = [sess EXCEPT ![i] =
                queueUpdate([@ EXCEPT !.intervalDue = @ + sess[i].interval],
                            now, "scheduled")]
  /\ WithinInFlight(sess'[i])
  /\ UNCHANGED << aggVars, now >>

\* the setInterval callback runs: performUpdate("scheduled")
IntervalFires(i) ==
  /\ sess[i].intervalOn /\ now >= sess[i].intervalDue
  /\ sess' = [sess EXCEPT ![i] =
                performUpdate([@ EXCEPT !.intervalDue = @ + sess[i].interval],
                              now, "scheduled")]
  /\ WithinInFlight(sess'[i])
  /\ UNCHANGED << aggVars, now >>

\* a timer set by queueUpdate runs: performUpdate(reason)
DeferredFires(i) ==
  /\ \E tm \in BagToSet(sess[i].timers) :
       /\ now >= tm.due
       /\ sess' = [sess EXCEPT ![i] =
                     performUpdate([@ EXCEPT !.timers = @ (-) SetToBag({tm})],
                                   now, tm.reason)]
  /\ WithinInFlight(sess'[i])
  /\ UNCHANGED << aggVars, now >>

SafetyNetNoCleanup(i) ==
  /\ sess[i].safetyOn /\ now >= sess[i].safetyDue
  /\ sess' = [sess EXCEPT ![i] = [@ EXCEPT !.safetyOn = FALSE]]
  /\ UNCHANGED << aggVars, now >>

\* the setTimeout(..., timeLimit) callback runs
SafetyNetFires(i) ==
  /\ sess[i].safetyOn /\ now >= sess[i].safetyDue
  /\ sess' = [sess EXCEPT ![i] = Teardown([@ EXCEPT !.safetyOn = FALSE], "safety")]
  /\ UNCHANGED << aggVars, now >>

\* `await generateEmbed()` of a performUpdate resolves: the footer is set and
\* interaction.editReply is called
RenderResolves(i) ==
  /\ \E u \in BagToSet(sess[i].inflight) :
       /\ u.pc = "render"
       /\ sess' = [sess EXCEPT ![i].inflight =
                     (@ (-) SetToBag({u})) (+) SetToBag({[u EXCEPT !.pc = "post"]})]
  /\ UNCHANGED << aggVars, now >>

PostResolvesKeepsPending(i) ==
  /\ \E u \in BagToSet(sess[i].inflight) :
       /\ u.pc = "post"
       /\ sess' = [sess EXCEPT ![i] =
                     LET s == [@ EXCEPT !.inflight = @ (-) SetToBag({u}),
                                        !.doneSince = TRUE,
                                        !.lastDoneAt = now,
                                        !.latePosts = IF sess[i].ended # {}
                                                      THEN @ + 1 ELSE @]
                     IN IF u.final
                        THEN Teardown([s EXCEPT !.shown = "final"], "deadline")
                        ELSE [s EXCEPT !.shown = "update",
                                       !.lastUpdateTime = u.at]]
  /\ UNCHANGED << aggVars, now >>

\* `await interaction.editReply()` of a performUpdate resolves
PostResolves(i) ==
  /\ \E u \in BagToSet(sess[i].inflight) :
       /\ u.pc = "post"
       /\ sess' = [sess EXCEPT ![i] =
                     LET s == [@ EXCEPT !.inflight = @ (-) SetToBag({u}),
                                        !.doneSince = TRUE,
                                        !.lastDoneAt = now,
                                        !.latePosts = IF sess[i].ended # {}
                                                      THEN @ + 1 ELSE @]
                     IN IF u.final
                        THEN Teardown([s EXCEPT !.shown = "final"], "deadline")
                        ELSE [s EXCEPT !.shown = "update",
                                       !.lastUpdateTime = u.at,
                                       !.pendingUpdate = FALSE]]
  /\ UNCHANGED << aggVars, now >>

UpdateThrowsStopsAll(i) ==
  /\ \E u \in BagToSet(sess[i].inflight) :
       sess' = [j \in DOMAIN sess |->
                  Teardown(IF j = i
                           THEN [sess[j] EXCEPT !.inflight = @ (-) SetToBag({u})]
                           ELSE sess[j], "error")]
  /\ UNCHANGED << aggVars, now >>

\* generateEmbed or editReply of a performUpdate throws: the catch block
UpdateThrows(i) ==
  /\ \E u \in BagToSet(sess[i].inflight) :
       sess' = [sess EXCEPT ![i] = Teardown([@ EXCEPT !.inflight = @ (-) SetToBag({u})], "error")]
  /\ UNCHANGED << aggVars, now >>

\* two seconds pass (the clock is followed in steps of 2 s); a timer that is due
\* runs before the clock moves on, and the time before a session is set up is
\* not followed
AdvanceClock ==
  /\ now + 2 <= MaxClock
  /\ \E i \in DOMAIN sess : sess[i].pc = "set"
  /\ \A i \in DOMAIN sess : ~TimerDue(sess[i], now)
  /\ now' = now + 2
  /\ UNCHANGED << aggVars, sess >>

\* a first press of join_group:1 by user u, as handleJoinGroup performs it
Joined(c, u) ==
  assignStudentToGroup(addStudent(c, NewStudent(u, CHOOSE n \in Names : TRUE)).c, u, 1).c

\* the classroom a session is attached to: as create-classroom leaves it, or as
\* start-lab leaves it at time 0 once every student has joined group 1
SchedClassrooms ==
  LET fresh == NewClassroom(ThreadId, "class", 1)
      joined == Joined(Joined(fresh, "u1"), "u2")
  IN { fresh, startLab(joined, CHOOSE l \in LabNames : TRUE, 0).c }

InitSched ==
  /\ groupsArg = 1
  /\ classroom \in SchedClassrooms
  /\ now = 0
  /\ call = NoCall
  /\ nCalls = 0
  /\ notified = EmptyBag
  /\ labsStarted = {classroom.activeLabSession} \ {NullLab}
  /\ completedOk = {}
  /\ sess = [i \in SessionIds |-> IdleSession]

NextSched ==
  \/ HandleJoinGroup
  \/ HandleCompleteLab
  \/ StartLabNow
  \/ AdvanceClock
  \/ \E i \in SessionIds :
       \/ CreateAutoUpdateMessage(i)
       \/ InitialReplySent(i)
       \/ InitialReplyFails(i)
       \/ IntervalFires(i)
       \/ DeferredFires(i)
       \/ SafetyNetFires(i)
       \/ RenderResolves(i)
       \/ PostResolves(i)
       \/ UpdateThrows(i)

SpecSched == InitSched /\ [][NextSched]_vars

(* ------------- SpecTicks: a session with a short recurring interval ------ *)
NextTicks ==
  \/ HandleJoinGroup
  \/ HandleCompleteLab
  \/ StartLabNow
  \/ AdvanceClock
  \/ \E i \in SessionIds :
       \/ CreateAutoUpdateMessageTicks(i)
       \/ InitialReplySent(i)
       \/ InitialReplyFails(i)
       \/ IntervalFires(i)
       \/ DeferredFires(i)
       \/ SafetyNetFires(i)
       \/ RenderResolves(i)
       \/ PostResolves(i)
       \/ UpdateThrows(i)

SpecTicks == InitSched /\ [][NextTicks]_vars

(* ------ SpecButtons: the buttons and start-lab on a new classroom -------- *)
\* usernames a user may carry when pressing a button
UserNames == {"ann", "bob"}

\* lab ids a complete_lab button may carry: the id of a lab started at time 0,
\* and an id that is not the active lab's
ButtonLabIds == {ToString(0), "other"}

\* the classroom as create-classroom leaves it, with 1 .. MaxGroups groups
InitButtons ==
  /\ groupsArg \in 1 .. MaxGroups
  /\ classroom = NewClassroom(ThreadId, "class", groupsArg)
  /\ now = 0
  /\ call = NoCall
  /\ nCalls = 0
  /\ notified = EmptyBag
  /\ labsStarted = {}
  /\ completedOk = {}
  /\ sess = [i \in SessionIds |-> IdleSession]

PressJoinGroup ==
  /\ nCalls < MaxButtonPresses
  /\ \E u \in StudentIds, name \in UserNames, groupNum \in 1 .. classroom.groups :
       handleJoinGroup(u, name, groupNum)

PressCompleteLab ==
  /\ nCalls < MaxButtonPresses
  /\ \E u \in StudentIds, labId \in ButtonLabIds : handleCompleteLab(u, labId)

RunStartLab ==
  /\ nCalls < MaxButtonPresses
  /\ \E labName \in LabNames : execute(labName)

NextButtons ==
  \/ PressJoinGroup
  \/ PressCompleteLab
  \/ RunStartLab

SpecButtons == InitButtons /\ [][NextButtons]_vars

(* ---------- SpecPair: two sessions observing the same classroom ---------- *)
InitPair ==
  /\ groupsArg = 1
  /\ classroom \in SchedClassrooms
  /\ now = 0
  /\ call = NoCall
  /\ nCalls = 0
  /\ notified = EmptyBag
  /\ labsStarted = {classroom.activeLabSession} \ {NullLab}
  /\ completedOk = {}
  /\ sess = [i \in PairIds |-> IdleSession]

\* a complete_lab press while two sessions listen
PairCompleteLab ==
  /\ nCalls < MaxPairPresses
  /\ HandleCompleteLab

NextPair ==
  \/ PairCompleteLab
  \/ AdvanceClock
  \/ \E i \in PairIds :
       \/ CreateAutoUpdateMessage(i)
       \/ InitialReplySent(i)
       \/ InitialReplyFails(i)
       \/ IntervalFires(i)
       \/ DeferredFires(i)
       \/ SafetyNetFires(i)
       \/ RenderResolves(i)
       \/ PostResolves(i)
       \/ UpdateThrows(i)

SpecPair == InitPair /\ [][NextPair]_vars

(* ------------------------- properties: Classroom ----------------------- *)
\* this step is a call of method op
IsCall(op) == nCalls' = nCalls + 1 /\ call'.op = op

Registered == DOMAIN classroom.students
LabActive == classroom.activeLabSession # NullLab

\* C1: once startLab has succeeded, every later startLab call throws, leaves
\* activeLabSession as it was and emits nothing; at most one LabSession is ever
\* created for the classroom.
C1_SecondStartLabRejected ==
  /\ [](Cardinality(labsStarted) <= 1)
  /\ [][ (IsCall("startLab") /\ labsStarted # {}) =>
           /\ call'.threw
           /\ call'.events = << >>
           /\ classroom'.activeLabSession = classroom.activeLabSession
           /\ labsStarted' = labsStarted ]_vars

C1_Witness ==
  /\ call.op = "startLab" /\ call.threw
  /\ labsStarted = {classroom.activeLabSession}

\* C2: two completeLab calls in succession for the same registered student and
\* the same active lab both return true; the first one (the student's first
\* completion of that lab) emits lab-completed exactly once and the second one
\* emits nothing.
C2_CompleteLabTwice ==
  [][ \A s \in StudentIds :
        (IsCall("completeLab") /\ call'.sid = s) =>
          /\ (s \in Registered /\ LabActive /\ ~hasCompletedActiveLab(classroom, s)) =>
               /\ call'.value
               /\ call'.events =
                    << Event("lab-completed", s, classroom.activeLabSession.id, {}) >>
          /\ (call.op = "completeLab" /\ call.sid = s /\ call.value) =>
               /\ call'.value
               /\ call'.events = << >>
               /\ notified' = notified ]_vars

\* the fourth call is a completeLab that returns true and emits nothing, for a
\* student notified once: the four calls are addStudent and startLab (in either
\* order) followed by two completeLab calls for that student in succession
C2_Witness ==
  /\ nCalls = 4
  /\ call.op = "completeLab" /\ call.value /\ call.events = << >>
  /\ CopiesIn(<< call.sid, classroom.activeLabSession.id >>, notified) = 1

\* C3: lab-completed is emitted at most once for each (student id, lab id) pair.
C3_NotifiedAtMostOnce ==
  \A p \in BagToSet(notified) : CopiesIn(p, notified) <= 1

C5_CompletedLabsGrow ==
  [][ \A s \in Registered :
        /\ s \in DOMAIN classroom'.students
        /\ classroom.students[s].completedLabs
             \subseteq classroom'.students[s].completedLabs ]_vars

\* C6: assignStudentToGroup(studentId, group) returns false, changes nothing
\* and emits nothing when the student is not registered or the group lies
\* outside 1..groupCount; otherwise it returns true and the student's group is
\* the requested one.
C6_AssignStudentToGroup ==
  [][ \A s \in StudentIds, g \in GroupInputs :
        (IsCall("assignStudentToGroup") /\ call'.sid = s /\ call'.group = {g}) =>
          IF s \notin Registered \/ g < 1 \/ g > classroom.groups
          THEN ~call'.value /\ classroom' = classroom /\ call'.events = << >>
          ELSE call'.value /\ classroom'.students[s].group = {g} ]_vars

C6_Witness ==
  /\ call.op = "assignStudentToGroup" /\ ~call.value
  /\ call.sid \in Registered
  /\ \E g \in call.group : g > classroom.groups

\* C7: completeLab(studentId) returns false, changes no completed set and
\* emits nothing when no lab is active or the student is not registered.
C7_CompleteLabRejected ==
  [][ \A s \in StudentIds :
        (IsCall("completeLab") /\ call'.sid = s /\ (~LabActive \/ s \notin Registered)) =>
          /\ ~call'.value
          /\ call'.events = << >>
          /\ classroom' = classroom
          /\ notified' = notified ]_vars

C7_Witness ==
  /\ call.op = "completeLab" /\ ~call.value
  /\ LabActive /\ call.sid \notin Registered /\ Registered # {}

C9_GroupCountFloor ==
  /\ classroom.groups = (IF groupsArg <= 0 THEN 1 ELSE groupsArg)
  /\ classroom.groups >= 1

C9_Witness ==
  /\ groupsArg < 0
  /\ call.op = "assignStudentToGroup" /\ call.value

(* --------------------- properties: live-update session ----------------- *)
\* this step delivers a lab-completed notification to the listener of session i
LabNotifStep(i) ==
  /\ sess[i].listening
  /\ nCalls' = nCalls + 1
  /\ \E j \in DOMAIN call'.events : call'.events[j].type = "lab-completed"

\* this step delivers to session i the second of two lab-completed
\* notifications that arrive 2 s apart
SecondOfPair(i) == LabNotifStep(i) /\ sess[i].lastNotif.at = now - 2

\* this step runs the callback of timer tm, set by queueUpdate of session i
FiresDeferred(i, tm) ==
  /\ sess'[i].timers # sess[i].timers
  /\ sess'[i].timers = sess[i].timers (-) SetToBag({tm})

NotifStep(i) ==
  /\ sess[i].listening
  /\ nCalls' = nCalls + 1
  /\ \E j \in DOMAIN call'.events : call'.events[j].type \in Observed

\* C11: a notification that reaches a session less than MIN_UPDATE_INTERVAL
\* (10 s) after the session's last completed post (the initial reply or the
\* last refresh that completed) starts no refresh in that step, whether or not
\* a refresh is in flight and however many notifications the step delivers.
C11_NoImmediateRefresh ==
  [][\A i \in SessionIds :
       (NotifStep(i) /\ now - sess[i].lastDoneAt < MIN_UPDATE_INTERVAL)
         => sess'[i].inflight = sess[i].inflight]_vars

\* C12: once a session has taken a termination path (deadline refresh posted,
\* safety-net timer fired, or error in render or post) its recurring timer is
\* cancelled and none of its listeners is registered on the classroom.
C12_TerminationReleases ==
  \A i \in SessionIds :
    sess[i].ended # {} => ~sess[i].intervalOn /\ ~sess[i].listening

\* a session that has terminated on all three paths
C12_Witness ==
  \E i \in SessionIds :
    /\ sess[i].ended = {"deadline", "safety", "error"}
    /\ ~sess[i].intervalOn /\ ~sess[i].listening

\* C13: once a session has been torn down (deadline, safety net or error) none
\* of its timers is pending, and no deferred refresh set by queueUpdate runs.
C13_NoTimerAfterTeardown ==
  /\ [](\A i \in SessionIds :
          sess[i].ended # {} => sess[i].timers = EmptyBag /\ ~sess[i].safetyOn)
  /\ [][\A i \in SessionIds : \A tm \in BagToSet(sess[i].timers) :
          FiresDeferred(i, tm) => sess[i].ended = {}]_vars

\* session i has nothing left to run: time budget elapsed, safety-net callback
\* done, no refresh suspended and no deferred timer pending
Settled(i) ==
  /\ sess[i].pc = "set"
  /\ now >= sess[i].endTime
  /\ ~sess[i].safetyOn
  /\ sess[i].inflight = EmptyBag
  /\ sess[i].timers = EmptyBag

\* C14: when no render or post has failed, a session whose time budget has
\* elapsed and that has nothing left to run has its recurring timer cancelled
\* and shows the final update (the one with the time-limit notice), whichever
\* of the last recurring tick and the safety-net timer ran first.
C14_DeadlineTermination ==
  \A i \in SessionIds :
    (Settled(i) /\ "error" \notin sess[i].ended)
      => ~sess[i].intervalOn /\ sess[i].shown = "final"

\* C15: after a render or post of a session has failed, the session's recurring
\* timer is cancelled and its listeners removed, it starts no further refresh
\* (performUpdate is not entered again), and the step in which the failure is
\* handled leaves the classroom unchanged.
C15_FailStop ==
  /\ [](\A i \in SessionIds :
          "error" \in sess[i].ended => ~sess[i].intervalOn /\ ~sess[i].listening)
  /\ [][\A i \in SessionIds :
          /\ "error" \in sess[i].ended
                => sess'[i].updateCount = sess[i].updateCount
          /\ ("error" \in sess'[i].ended /\ "error" \notin sess[i].ended)
                => classroom' = classroom]_vars

\* C16: when several sessions observe one classroom, a step in which one of
\* them takes a termination path (deadline, safety net or error) changes nothing
\* of any other session, and every session that is set up and has taken no
\* termination path of its own has its listeners and its recurring timer.
C16_TerminationIsolated ==
  /\ [][\A i \in DOMAIN sess :
          sess'[i].ended # sess[i].ended
            => \A j \in DOMAIN sess \ {i} : sess'[j] = sess[j]]_vars
  /\ [](\A j \in DOMAIN sess :
          (sess[j].pc = "set" /\ sess[j].ended = {})
            => sess[j].listening /\ sess[j].intervalOn)

\* one session has failed and hit its safety net, while another still has its
\* listeners and timer and has a refresh in flight that started later
C16_Witness ==
  \E i \in DOMAIN sess : \E j \in DOMAIN sess \ {i} :
    /\ sess[i].ended = {"error", "safety"}
    /\ sess[j].pc = "set" /\ sess[j].ended = {}
    /\ sess[j].listening /\ sess[j].intervalOn
    /\ \E u \in BagToSet(sess[j].inflight) : u.at >= sess[i].safetyDue

\* C17: a session posts to its reply at most once after it has been torn down
\* (deadline cleanup, safety-net callback or catch block).
C17_AtMostOneLatePost ==
  \A i \in SessionIds : sess[i].latePosts <= 1

\* C18: once more than timeLimit has passed since a session set up its timers,
\* its recurring timer is cancelled and its listeners are removed, whether or
\* not a refresh took the deadline branch and whether or not the refreshes in
\* flight ever complete.
C18_TornDownByTimeLimit ==
  \A i \in SessionIds :
    (sess[i].pc = "set" /\ now > sess[i].startTime + sess[i].timeLimit)
      => ~sess[i].intervalOn /\ ~sess[i].listening

\* past the time limit, torn down by the safety net alone while a refresh that
\* never completed is still suspended
C18_Witness ==
  \E i \in SessionIds :
    /\ sess[i].pc = "set"
    /\ now > sess[i].startTime + sess[i].timeLimit
    /\ sess[i].ended = {"safety"}
    /\ sess[i].inflight # EmptyBag
    /\ ~sess[i].intervalOn /\ ~sess[i].listening

(* ------------------- properties: completion statistics ----------------- *)
\* students of classroom c that completed its active lab / that are in group g
DoneStudents(c) ==
  { id \in DOMAIN c.students : c.activeLabSession.id \in c.students[id].completedLabs }
GroupMembers(c, g) == { id \in DOMAIN c.students : c.students[id].group = {g} }

\* line reports `completed` out of `total` (a "no students" line reports 0 of 0)
Reports(line, completed, total) ==
  /\ line.completed = completed
  /\ line.total = total
  /\ line.percent = Percentage(completed, total)

\* embed e reports the overall counts of classroom c
ReportsOverall(e, c) ==
  /\ e.active
  /\ Len(e.overall) = 1
  /\ Reports(e.overall[1], Cardinality(DoneStudents(c)), Cardinality(DOMAIN c.students))

\* embed e reports the counts of group g of classroom c
ReportsGroup(e, c, g) ==
  /\ g \in DOMAIN e.groups
  /\ e.groups[g].group = g
  /\ Reports(e.groups[g], Cardinality(DoneStudents(c) \cap GroupMembers(c, g)),
             Cardinality(GroupMembers(c, g)))

\* C19 as stated: with an active lab, both status embeds report the overall
\* completed/total counts and, for every group g in 1..groups, the completed
\* count and size of group g.
C19_Original ==
  LabActive =>
    \A e \in {createStatusEmbed(classroom), createLabStatusEmbed(classroom)} :
      /\ ReportsOverall(e, classroom)
      /\ \A g \in 1 .. classroom.groups : ReportsGroup(e, classroom, g)

\* C19, amended: with an active lab, both status embeds report the overall
\* completed/total counts; when the classroom has more than one group they
\* report, for every group g in 1..groups, the completed count and size of
\* group g, and when it has exactly one group they report no group line.
C19_CompletionStats ==
  LabActive =>
    \A e \in {createStatusEmbed(classroom), createLabStatusEmbed(classroom)} :
      /\ ReportsOverall(e, classroom)
      /\ classroom.groups > 1
           => \A g \in 1 .. classroom.groups : ReportsGroup(e, classroom, g)
      /\ classroom.groups = 1 => e.groups = << >>

\* the end-to-end scenario: 2 groups, u1 in group 1 and u2 in group 2, lab
\* started, u1 completes; the embed shows 1/2 (50%), group 1: 1/1 (100%),
\* group 2: 0/1 (0%)
C19_Witness ==
  /\ LabActive
  /\ classroom.groups = 2
  /\ DOMAIN classroom.students = {"u1", "u2"}
  /\ classroom.students["u1"].group = {1}
  /\ classroom.students["u2"].group = {2}
  /\ call.op = "completeLab" /\ call.sid = "u1" /\ call.value
  /\ DoneStudents(classroom) = {"u1"}
  /\ createStatusEmbed(classroom).overall = << StatLine(0, 1, 2) >>
  /\ createStatusEmbed(classroom).groups = << StatLine(1, 1, 1), StatLine(2, 0, 1) >>
  /\ StatLine(1, 1, 1).percent = 100 /\ StatLine(2, 0, 1).percent = 0
  /\ StatLine(0, 1, 2).percent = 50
  /\ createLabStatusEmbed(classroom).groups = createStatusEmbed(classroom).groups

(* --------------- properties: live-update session, continued ------------ *)
\* C20: a session has at most one deferred refresh (setTimeout of queueUpdate)
\* pending at any time.
C20_AtMostOneDeferred ==
  \A i \in SessionIds : BagCardinality(sess[i].timers) <= 1

\* the number of notifications of observed kinds that this step emits
ObservedEvents == Cardinality({ j \in DOMAIN call'.events : call'.events[j].type \in Observed })

\* this step delivers to session i a notification that queueUpdate drops or
\* defers behind a refresh that is already pending
DropStep(i) ==
  /\ NotifStep(i)
  /\ now - sess[i].lastUpdateTime < MIN_UPDATE_INTERVAL
  /\ sess[i].pendingUpdate \/ ObservedEvents > 1

\* C21: whenever a notification is dropped because a refresh is pending, a
\* deferred refresh of the session is still to run, due later than the
\* notification (at lastUpdateTime + 10 s); and a deferred refresh, when it
\* runs, enters performUpdate and so renders (generateEmbed is called in the
\* same step) at that time, not before it is due. The dropped change therefore
\* precedes the render of the pending refresh.
C21_DroppedChangeRendered ==
  [][\A i \in SessionIds :
       /\ DropStep(i)
            => \E tm \in BagToSet(sess'[i].timers) :
                 /\ tm.due > now
                 /\ tm.due = sess[i].lastUpdateTime + MIN_UPDATE_INTERVAL
       /\ \A tm \in BagToSet(sess[i].timers) :
            FiresDeferred(i, tm)
              => /\ now >= tm.due
                 /\ \E u \in BagToSet(sess'[i].inflight) :
                      /\ u.at = now /\ u.reason = tm.reason
                      /\ CopiesIn(u, sess'[i].inflight) = CopiesIn(u, sess[i].inflight) + 1]_vars

\* a lab-completed notification has just been dropped and the deferred refresh
\* queued before it is still to run
C21_Witness ==
  \E i \in SessionIds :
    /\ sess[i].listening
    /\ sess[i].lastNotif.at = now
    /\ sess[i].lastNotif.outcome = "dropped"
    /\ sess[i].lastNotif.pending
    /\ sess[i].pendingUpdate
    /\ \E tm \in BagToSet(sess[i].timers) : tm.due > now /\ tm.queuedAt < now

\* the recurring timer of session i fires in this step
TickStep(i) ==
  /\ sess[i].intervalOn
  /\ sess'[i].intervalDue # sess[i].intervalDue

\* C22: while the recurring timer is not cancelled no firing is skipped (the
\* clock never passes a due tick), and every firing enters performUpdate with
\* the reason "scheduled": a new refresh started at this time is in flight and
\* updateCount grows by one, whatever lastUpdateTime and pendingUpdate are, and
\* the firing leaves both of them and the deferred timers alone.
C22_TickAlwaysRefreshes ==
  /\ [](\A i \in SessionIds : sess[i].intervalOn => now <= sess[i].intervalDue)
  /\ [][\A i \in SessionIds :
          TickStep(i) =>
            LET u == Update("scheduled", now, now >= sess[i].endTime, "render")
            IN /\ sess'[i].intervalDue = sess[i].intervalDue + sess[i].interval
               /\ CopiesIn(u, sess'[i].inflight) = CopiesIn(u, sess[i].inflight) + 1
               /\ sess'[i].updateCount = sess[i].updateCount + 1
               /\ sess'[i].lastUpdateTime = sess[i].lastUpdateTime
               /\ sess'[i].pendingUpdate = sess[i].pendingUpdate
               /\ sess'[i].timers = sess[i].timers]_vars

\* a scheduled refresh has just started although a refresh completed less than
\* 10 s ago and a deferred refresh is pending
C22_Witness ==
  \E i \in SessionIds :
    /\ sess[i].intervalOn
    /\ sess[i].pendingUpdate
    /\ now - sess[i].lastUpdateTime < MIN_UPDATE_INTERVAL
    /\ \E u \in BagToSet(sess[i].inflight) :
         u.reason = "scheduled" /\ u.at = now /\ u.pc = "render"

\* what a subscriber reading classroom c finds for notification ev
FoundBySubscriber(c, ev) ==
  CASE ev.type = "student-added" -> hasStudent(c, ev.sid)
    [] ev.type = "student-group-changed" ->
         hasStudent(c, ev.sid) /\ c.students[ev.sid].group = ev.group
    [] ev.type = "lab-completed" ->
         /\ hasStudent(c, ev.sid)
         /\ c.activeLabSession # NullLab /\ c.activeLabSession.id = ev.lab
         /\ ev.lab \in c.students[ev.sid].completedLabs
    [] ev.type = "lab-started" ->
         c.activeLabSession # NullLab /\ c.activeLabSession.id = ev.lab
    [] OTHER -> FALSE

C24_ActiveLabStays ==
  [][LabActive => classroom'.activeLabSession = classroom.activeLabSession]_vars

\* the lab started at time 0 is still the active one after a startLab call at
\* time 1 and a further call of another method
C24_Witness ==
  /\ LabActive
  /\ classroom.activeLabSession.id = ToString(0)
  /\ now = 1
  /\ call.op \in {"addStudent", "assignStudentToGroup", "completeLab"}
  /\ labsStarted = {classroom.activeLabSession}

\* a termination path runs in this step for session i: the safety-net timeout,
\* the catch block of a refresh, or the cleanup after a posted final update
TeardownStep(i) ==
  \/ sess[i].safetyOn /\ ~sess'[i].safetyOn
  \/ /\ BagCardinality(sess'[i].inflight) < BagCardinality(sess[i].inflight)
     /\ \/ sess'[i].latePosts = sess[i].latePosts /\ sess'[i].lastDoneAt = sess[i].lastDoneAt
        \/ \E u \in BagToSet(sess[i].inflight) :
             /\ u.final /\ u.pc = "post"
             /\ CopiesIn(u, sess'[i].inflight) < CopiesIn(u, sess[i].inflight)

C26_OneStartLabWins ==
  /\ [](call.op = "startLab" => Cardinality(labsStarted) = 1 /\ ~call.threw)
  /\ [][IsCall("startLab") =>
          IF LabActive
          THEN /\ ~call'.value /\ ~call'.threw /\ call'.events = << >>
               /\ classroom' = classroom /\ labsStarted' = labsStarted
          ELSE /\ call'.value /\ ~call'.threw
               /\ classroom'.activeLabSession # NullLab
               /\ labsStarted' = {classroom'.activeLabSession}]_vars

\* two start-lab commands ran at the same instant: the first created the
\* session, the second was answered that one is active, while the live status
\* message of the first is still waiting for its initial reply
C26_Witness ==
  /\ nCalls = 2
  /\ call.op = "startLab" /\ ~call.value /\ ~call.threw
  /\ LabActive /\ classroom.activeLabSession.startTime = now
  /\ labsStarted = {classroom.activeLabSession}
  /\ \E i \in SessionIds : sess[i].pc = "initial"

\* C27: a press of a join button by a user who has a record keeps that record
\* (id, name, completed labs) and emits no student-added; a press by a user
\* who has none creates a record with no completed lab and emits student-added
\* once, before student-group-changed; either way the user's group is the
\* button's group afterwards and no other student's record changes.
C27_JoinCreatesOnce ==
  [][\A u \in StudentIds :
       (IsCall("handleJoinGroup") /\ call'.sid = u) =>
         LET added == { j \in DOMAIN call'.events :
                          call'.events[j].type = "student-added" }
         IN /\ u \in DOMAIN classroom'.students
            /\ classroom'.students[u].group = call'.group
            /\ call'.group \subseteq 1 .. classroom.groups
            /\ call'.events[Len(call'.events)] =
                 Event("student-group-changed", u, "", call'.group)
            /\ \A v \in Registered \ {u} :
                 classroom'.students[v] = classroom.students[v]
            /\ DOMAIN classroom'.students = Registered \cup {u}
            /\ IF u \in Registered
               THEN /\ added = {}
                    /\ classroom'.students[u] =
                         [classroom.students[u] EXCEPT !.group = call'.group]
               ELSE /\ added = {1} /\ Len(call'.events) = 2
                    /\ call'.events[1].sid = u
                    /\ classroom'.students[u].id = u
                    /\ classroom'.students[u].completedLabs = {}]_vars

\* a user who joined group 1 and completed the active lab has just joined
\* group 2: the record keeps the completed lab
C27_Witness ==
  \E u \in StudentIds :
    /\ call.op = "handleJoinGroup" /\ call.sid = u /\ call.group = {2}
    /\ Len(call.events) = 1
    /\ LabActive /\ hasCompletedActiveLab(classroom, u)
    /\ classroom.students[u].group = {2}
    /\ nCalls = 4

\* C28: a press of a complete button records a completion (the reply is
\* "already" or "completed") only if a lab is active, the button carries its
\* id and the user is registered: then the active lab's id is in the user's
\* completed set, the reply is "already" exactly when it was there before the
\* press, and lab-completed is emitted exactly when it was not. Every other
\* press leaves the classroom as it is and emits nothing. No press changes
\* another student's record.
C28_CompleteButtonRecords ==
  [][\A u \in StudentIds :
       (IsCall("handleCompleteLab") /\ call'.sid = u) =>
         /\ call'.value \in {"inactive", "unregistered", "already", "completed"}
         /\ (~LabActive \/ u \notin Registered)
              => call'.value \in {"inactive", "unregistered"}
         /\ call'.value \in {"inactive", "unregistered"} =>
              /\ classroom' = classroom /\ call'.events = << >>
              /\ notified' = notified /\ completedOk' = completedOk
         /\ call'.value \in {"already", "completed"} =>
              LET lab == classroom.activeLabSession.id
              IN /\ completedOk' = completedOk \cup {<< u, lab >>}
                 /\ classroom'.students[u].completedLabs =
                      classroom.students[u].completedLabs \cup {lab}
                 /\ (call'.value = "already") = hasCompletedActiveLab(classroom, u)
                 /\ call'.events = IF call'.value = "already" THEN << >>
                                   ELSE << Event("lab-completed", u, lab, {}) >>
         /\ \A v \in Registered \ {u} :
              classroom'.students[v] = classroom.students[v]]_vars

\* a registered user has just pressed, while a lab is active, a complete
\* button that carries another lab id: the answer is "no longer active" and
\* nothing is recorded for that user
C28_Witness ==
  /\ call.op = "handleCompleteLab" /\ call.value = "inactive"
  /\ LabActive /\ call.sid \in Registered
  /\ ~hasCompletedActiveLab(classroom, call.sid)
  /\ completedOk = {} /\ notified = EmptyBag

\* a refresh of session i has its post land in this step
PostLands(i) ==
  \E u \in BagToSet(sess[i].inflight) :
    /\ u.pc = "post"
    /\ CopiesIn(u, sess'[i].inflight) < CopiesIn(u, sess[i].inflight)
    /\ sess'[i].lastDoneAt = now /\ sess'[i].doneSince
    /\ sess'[i].latePosts # sess[i].latePosts \/ sess'[i].shown # sess[i].shown

\* C29: once the final update of a session is what its reply shows, no further
\* post of that session lands: neither a second final update nor a non-final
\* one that replaces it.
C29_FinalPostedOnce ==
  [][\A i \in SessionIds : sess[i].shown = "final" => ~PostLands(i)]_vars

\* C30: a session whose initial render or reply failed has rejected to its
\* caller with nothing registered: no recurring timer, no safety-net timer, no
\* listener, no deferred timer and no refresh, and it stays so whatever the
\* classroom emits afterwards.
C30_FailedStartRegistersNothing ==
  /\ [](\A i \in SessionIds :
          sess[i].pc = "rejected" =>
            /\ ~sess[i].intervalOn /\ ~sess[i].safetyOn /\ ~sess[i].listening
            /\ sess[i].timers = EmptyBag /\ sess[i].inflight = EmptyBag
            /\ sess[i].updateCount = 0 /\ sess[i].shown = "none"
            /\ sess[i].ended = {})
  /\ [][\A i \in SessionIds :
          sess[i].pc = "rejected" => sess'[i] = sess[i]]_vars

\* the initial reply of a session failed and a new user has joined a group
\* since the start: two notifications, and the session has no refresh
C30_Witness ==
  \E i \in SessionIds :
    /\ sess[i].pc = "rejected"
    /\ call.op = "handleJoinGroup" /\ Len(call.events) = 2
    /\ sess[i].inflight = EmptyBag /\ sess[i].timers = EmptyBag
====
